---- MODULE Spec2Model ----
(***************************************************************************)
(* MeetingSummarizer.tsx: the component's state, its click handler         *)
(* handleSummarize (validation, one fetch, response.json(), JSON.parse,    *)
(* toast, finally) and the render of the Results section.                  *)
(*                                                                         *)
(* Text the user types is a sequence of characters; the text the endpoint  *)
(* returns in choices[0].message.content is a sequence of JSON tokens,     *)
(* which JSON_parse parses by recursive descent.                           *)
(***************************************************************************)
EXTENDS Naturals, Sequences, FiniteSets, TLC

(* ------------------------------ bounds --------------------------------- *)

\* longest text typed into the transcript and the API key fields
MaxLen == 1

\* number of times the Summarize button is clicked
MaxClicks == 3

(* --------------------------- typed text -------------------------------- *)

WhiteSpace == {" "}

Chars == WhiteSpace \cup {"a"}

Texts == UNION {[1..n -> Chars] : n \in 0..MaxLen}

RECURSIVE trimStart(_)
trimStart(s) ==
    IF s # <<>> /\ Head(s) \in WhiteSpace THEN trimStart(Tail(s)) ELSE s

RECURSIVE trimEnd(_)
trimEnd(s) ==
    IF s # <<>> /\ s[Len(s)] \in WhiteSpace
    THEN trimEnd(SubSeq(s, 1, Len(s) - 1))
    ELSE s

\* a trim that removes nothing
trimNone(s) == s

\* String.prototype.trim
trim(s) == trimEnd(trimStart(s))

(* ----------------------------- JSON ------------------------------------ *)

\* tokens of a JSON text
Punct(c) == [k |-> "punct", s |-> c]
Lit(w)   == [k |-> "lit",   s |-> w]
Str(w)   == [k |-> "str",   s |-> w]
Word(w)  == [k |-> "word",  s |-> w]

\* JavaScript values JSON.parse produces, and undefined
JNull      == [t |-> "null"]
JUndefined == [t |-> "undefined"]
JBool(w)   == [t |-> "bool", v |-> w]
JStr(w)    == [t |-> "str",  v |-> w]
JArr(xs)   == [t |-> "arr",  v |-> xs]
JObj(ms)   == [t |-> "obj",  v |-> ms]

SyntaxError == [ok |-> FALSE]
Parsed(val, next) == [ok |-> TRUE, val |-> val, next |-> next]

RECURSIVE ParseValue(_, _)
RECURSIVE ParseElements(_, _, _)
RECURSIVE ParseMembers(_, _, _)

ParseValue(toks, i) ==
    IF i > Len(toks) THEN SyntaxError
    ELSE LET tk == toks[i] IN
         CASE tk.k = "lit" ->
                Parsed(IF tk.s = "null" THEN JNull ELSE JBool(tk.s), i + 1)
           [] tk.k = "str" -> Parsed(JStr(tk.s), i + 1)
           [] tk = Punct("[") ->
                IF i + 1 <= Len(toks) /\ toks[i + 1] = Punct("]")
                THEN Parsed(JArr(<<>>), i + 2)
                ELSE ParseElements(toks, i + 1, <<>>)
           [] tk = Punct("{") ->
                IF i + 1 <= Len(toks) /\ toks[i + 1] = Punct("}")
                THEN Parsed(JObj(<<>>), i + 2)
                ELSE ParseMembers(toks, i + 1, <<>>)
           [] OTHER -> SyntaxError

ParseElements(toks, i, acc) ==
    LET r == ParseValue(toks, i) IN
    IF ~r.ok \/ r.next > Len(toks) THEN SyntaxError
    ELSE IF toks[r.next] = Punct(",")
         THEN ParseElements(toks, r.next + 1, Append(acc, r.val))
    ELSE IF toks[r.next] = Punct("]")
         THEN Parsed(JArr(Append(acc, r.val)), r.next + 1)
    ELSE SyntaxError

ParseMembers(toks, i, acc) ==
    IF i + 1 > Len(toks) \/ toks[i].k # "str" \/ toks[i + 1] # Punct(":")
    THEN SyntaxError
    ELSE LET r == ParseValue(toks, i + 2)
             ms == Append(acc, [key |-> toks[i].s, val |-> r.val])
         IN
         IF ~r.ok \/ r.next > Len(toks) THEN SyntaxError
         ELSE IF toks[r.next] = Punct(",")
              THEN ParseMembers(toks, r.next + 1, ms)
         ELSE IF toks[r.next] = Punct("}")
              THEN Parsed(JObj(ms), r.next + 1)
         ELSE SyntaxError

\* JSON.parse: the whole text is one value, or a SyntaxError is thrown
JSON_parse(toks) ==
    LET r == ParseValue(toks, 1) IN
    IF r.ok /\ r.next = Len(toks) + 1
    THEN [ok |-> TRUE, val |-> r.val]
    ELSE SyntaxError

\* obj.key: the last member of that name, undefined when there is none
\* (the values read here are truthy, so the access itself does not throw)
Prop(val, key) ==
    IF val.t # "obj" THEN JUndefined
    ELSE LET hits == {i \in 1..Len(val.v) : val.v[i].key = key} IN
         IF hits = {} THEN JUndefined
         ELSE val.v[CHOOSE i \in hits : \A j \in hits : j <= i].val

(* ------------------------ the SummaryResult ---------------------------- *)

\* interface SummaryResult { summary: string[]; actionItems: string[] }
IsStringArray(val) ==
    val.t = "arr" /\ \A i \in 1..Len(val.v) : val.v[i].t = "str"

IsSummaryResult(val) ==
    /\ val.t = "obj"
    /\ IsStringArray(Prop(val, "summary"))
    /\ IsStringArray(Prop(val, "actionItems"))

(* --------------------------- the render -------------------------------- *)

\* JavaScript truthiness, as `result && (...)` tests it
Truthy(val) ==
    CASE val.t \in {"null", "undefined"} -> FALSE
      [] val.t = "bool" -> val.v = "true"
      [] val.t = "str" -> val.v # ""
      [] OTHER -> TRUE

\* a value React accepts as a child; an object is not one
RECURSIVE Renderable(_)
Renderable(val) ==
    CASE val.t = "obj" -> FALSE
      [] val.t = "arr" -> \A i \in 1..Len(val.v) : Renderable(val.v[i])
      [] OTHER -> TRUE

\* xs.map((x, index) => <li key={index}>...{x}...</li>)
RECURSIVE mapLi(_, _)
mapLi(xs, index) ==
    IF xs = <<>> THEN <<>>
    ELSE <<[key |-> index, child |-> Head(xs)]>> \o mapLi(Tail(xs), index + 1)

\* a button that is never disabled
buttonNeverDisabled(processing) == FALSE

\* <Button onClick={handleSummarize} disabled={isProcessing}>
buttonDisabled(processing) == processing

\* the list is shown from the second item on
hasItemsFromTwo(n) == n > 1

\* result.actionItems.length > 0 ? <ul>...</ul> : <p>No specific action items identified</p>
hasItems(n) == n > 0

\* what is on screen: the trigger, and the Results section when there is one
Screen(mode, disabled, bullets, badge, rows, notice) ==
    [mode |-> mode, disabled |-> disabled, bullets |-> bullets,
     badge |-> badge, rows |-> rows, notice |-> notice]

\* a render that threw: with no error boundary React unmounts the tree
Crashed == Screen("crashed", FALSE, <<>>, <<>>, <<>>, FALSE)

\* the Action Items card: badge, rows or notice; a TypeError gives Crashed
ActionItemsCard(disabled, bullets, items) ==
    CASE items.t \in {"undefined", "null"} -> Crashed
      [] items.t = "arr" ->
           IF hasItems(Len(items.v))
           THEN IF Renderable(items)
                THEN Screen("shown", disabled, bullets, <<Len(items.v)>>,
                            mapLi(items.v, 0), FALSE)
                ELSE Crashed
           ELSE Screen("shown", disabled, bullets, <<Len(items.v)>>, <<>>, TRUE)
      [] items.t = "str" /\ items.v # "" -> Crashed
      [] items.t = "str" /\ items.v = "" ->
           Screen("shown", disabled, bullets, <<0>>, <<>>, TRUE)
      [] OTHER -> Screen("shown", disabled, bullets, <<>>, <<>>, TRUE)

\* the component's return value for a given state
Render(res, processing) ==
    LET disabled == buttonDisabled(processing)
        summary  == Prop(res, "summary")
    IN
    IF ~Truthy(res)
    THEN Screen("hidden", disabled, <<>>, <<>>, <<>>, FALSE)
    ELSE IF summary.t # "arr" \/ ~Renderable(summary) THEN Crashed
    ELSE ActionItemsCard(disabled, mapLi(summary.v, 0), Prop(res, "actionItems"))

(* ---------------------- what the endpoint returns ---------------------- *)

\* {"summary":["A","B"],"actionItems":[]}
TwoBullets ==
    <<Punct("{"), Str("summary"), Punct(":"), Punct("["), Str("A"), Punct(","),
      Str("B"), Punct("]"), Punct(","), Str("actionItems"), Punct(":"),
      Punct("["), Punct("]"), Punct("}")>>

\* {"summary":["A"],"actionItems":["Follow up with X"]}
OneItem ==
    <<Punct("{"), Str("summary"), Punct(":"), Punct("["), Str("A"), Punct("]"),
      Punct(","), Str("actionItems"), Punct(":"), Punct("["),
      Str("Follow up with X"), Punct("]"), Punct("}")>>

\* Here is the summary            (no JSON at all)
Prose == <<Word("Here"), Word("is"), Word("the"), Word("summary")>>

\* {"notes":["A"]}                (JSON of another shape)
OtherShape ==
    <<Punct("{"), Str("notes"), Punct(":"), Punct("["), Str("A"), Punct("]"),
      Punct("}")>>

\* {"summary":["A"]}              (JSON with one of the two arrays)
SummaryOnly ==
    <<Punct("{"), Str("summary"), Punct(":"), Punct("["), Str("A"), Punct("]"),
      Punct("}")>>

\* null
NullText == <<Lit("null")>>

Contents == {TwoBullets, OneItem, Prose, OtherShape, SummaryOnly, NullText}

\* the response body: not JSON, or JSON with a list of choices, each the
\* text of choices[i].message.content
UnreadableBody == [json |-> FALSE, choices |-> <<>>]
Body(choices) == [json |-> TRUE, choices |-> choices]

Bodies == {UnreadableBody, Body(<<>>)} \cup {Body(<<c>>) : c \in Contents}

\* how the fetch promise settles: rejected, or a response with a status
NoResponse == [kind |-> "none", ok |-> FALSE, body |-> UnreadableBody]
Rejected == [kind |-> "rejected", ok |-> FALSE, body |-> UnreadableBody]
Http(ok, body) == [kind |-> "http", ok |-> ok, body |-> body]

Responses == {Rejected} \cup {Http(ok, b) : ok \in BOOLEAN, b \in Bodies}

(* ------------------------------ state ---------------------------------- *)

VARIABLES
    transcript,     \* useState("")
    apiKey,         \* useState("")
    isProcessing,   \* useState(false)
    result,         \* useState<SummaryResult | null>(null)
    view,           \* what the last render put on screen
    toasts,         \* the calls of toast(): how many, and the last one
    inflight,       \* the invocations of handleSummarize suspended at an await
    fetchCount      \* the requests the endpoint has been sent

vars == <<transcript, apiKey, isProcessing, result, view, toasts, inflight,
          fetchCount>>

Toast(title, variant) == [title |-> title, variant |-> variant]

NoToast == Toast("", "")
TranscriptRequired == Toast("Transcript Required", "destructive")
ApiKeyRequired == Toast("API Key Required", "destructive")
SummaryGenerated == Toast("Summary Generated", "default")
ProcessingFailed == Toast("Processing Failed", "destructive")

\* toast({...})
toast(t) == [count |-> toasts.count + 1, last |-> t]

\* a catch block that shows the message of the error it caught
catchToastMessage(message) == Toast(message, "destructive")

\* catch (error) { toast({ title: "Processing Failed", ... }) }
catchToast(message) == ProcessingFailed

\* a handler that leaves the flag as it is
finallyKeepsProcessing == isProcessing

\* finally { setIsProcessing(false) }
finallyIsProcessing == FALSE

\* a status check that lets every response through
responseOkAlways(response) == TRUE

\* response.ok
responseOk(response) == response.ok

\* the tree is mounted until a render throws
Mounted == view.mode # "crashed"

\* React renders the new state when a handler (or its continuation) returns
Commit(res, processing) == IF Mounted THEN Render(res, processing) ELSE view

Init ==
    /\ transcript = <<>>
    /\ apiKey = <<>>
    /\ isProcessing = FALSE
    /\ result = JNull
    /\ view = Render(JNull, FALSE)
    /\ toasts = [count |-> 0, last |-> NoToast]
    /\ inflight = <<>>
    /\ fetchCount = 0

(* ----------------------------- the inputs ------------------------------ *)

\* onChange={(e) => setTranscript(e.target.value)}
setTranscript(text) ==
    /\ Mounted
    /\ text # transcript
    /\ transcript' = text
    /\ view' = Commit(result, isProcessing)
    /\ UNCHANGED <<apiKey, isProcessing, result, toasts, inflight, fetchCount>>

\* onChange={(e) => setApiKey(e.target.value)}
setApiKey(text) ==
    /\ Mounted
    /\ text # apiKey
    /\ apiKey' = text
    /\ view' = Commit(result, isProcessing)
    /\ UNCHANGED <<transcript, isProcessing, result, toasts, inflight, fetchCount>>

(* --------------------------- handleSummarize --------------------------- *)

Suspended(stage, response) == [stage |-> stage, response |-> response]

Remove(seq, i) == SubSeq(seq, 1, i - 1) \o SubSeq(seq, i + 1, Len(seq))

Replace(seq, i, x) == [seq EXCEPT ![i] = x]

\* if (!transcript.trim()) { toast(...); return; }
transcriptMissing ==
    /\ trim(transcript) = <<>>
    /\ toasts' = toast(TranscriptRequired)
    /\ view' = Commit(result, isProcessing)
    /\ UNCHANGED <<transcript, apiKey, isProcessing, result, inflight, fetchCount>>

\* if (!apiKey.trim()) { toast(...); return; }
apiKeyMissing ==
    /\ trim(transcript) # <<>>
    /\ trim(apiKey) = <<>>
    /\ toasts' = toast(ApiKeyRequired)
    /\ view' = Commit(result, isProcessing)
    /\ UNCHANGED <<transcript, apiKey, isProcessing, result, inflight, fetchCount>>

\* setIsProcessing(true); try { const response = await fetch(...)
dispatch ==
    /\ trim(transcript) # <<>>
    /\ trim(apiKey) # <<>>
    /\ isProcessing' = TRUE
    /\ fetchCount' = fetchCount + 1
    /\ inflight' = Append(inflight, Suspended("fetch", NoResponse))
    /\ view' = Commit(result, TRUE)
    /\ UNCHANGED <<transcript, apiKey, result, toasts>>

\* the handler, up to its return or its first await
handleSummarize == transcriptMissing \/ apiKeyMissing \/ dispatch

\* a click on the Summarize button: a disabled button takes none
onClick ==
    /\ Mounted
    /\ ~view.disabled
    /\ toasts.count + Len(inflight) < MaxClicks
    /\ handleSummarize

\* the endpoint answers, or the request fails: the fetch promise settles
fetchSettles(i, response) ==
    /\ inflight[i].stage = "fetch"
    /\ inflight' = Replace(inflight, i, Suspended("fetched", response))
    /\ UNCHANGED <<transcript, apiKey, isProcessing, result, view, toasts,
                   fetchCount>>

\* catch (error) {...} finally {...}: the invocation ends with a failure
failed(i, message) ==
    /\ toasts' = toast(catchToast(message))
    /\ isProcessing' = finallyIsProcessing
    /\ inflight' = Remove(inflight, i)
    /\ view' = Commit(result, isProcessing')
    /\ UNCHANGED <<transcript, apiKey, result, fetchCount>>

\* the handler resumes after `await fetch(...)`
afterFetch(i) ==
    /\ inflight[i].stage = "fetched"
    /\ LET response == inflight[i].response IN
       IF response.kind = "rejected" THEN failed(i, "Failed to fetch")
       ELSE IF ~responseOk(response) THEN failed(i, "Failed to process transcript")
       ELSE /\ inflight' = Replace(inflight, i, Suspended("json", response))
            /\ UNCHANGED <<transcript, apiKey, isProcessing, result, view,
                           toasts, fetchCount>>

\* setResult(parsedResult); toast(...); finally {...}
succeeded(i, parsedResult) ==
    /\ result' = parsedResult
    /\ toasts' = toast(SummaryGenerated)
    /\ isProcessing' = finallyIsProcessing
    /\ inflight' = Remove(inflight, i)
    /\ view' = Commit(result', isProcessing')
    /\ UNCHANGED <<transcript, apiKey, fetchCount>>

\* the handler resumes after `await response.json()`
afterJson(i) ==
    /\ inflight[i].stage = "json"
    /\ LET data == inflight[i].response.body IN
       IF ~data.json THEN failed(i, "Unexpected token")
       ELSE IF data.choices = <<>> THEN failed(i, "Cannot read properties of undefined")
       ELSE LET content == data.choices[1]
                parsed == JSON_parse(content)
            IN IF parsed.ok
               THEN succeeded(i, parsed.val)
               ELSE failed(i, "Failed to parse AI response")

Next ==
    \/ \E text \in Texts : setTranscript(text)
    \/ \E text \in Texts : setApiKey(text)
    \/ onClick
    \/ \E i \in 1..Len(inflight) : \E response \in Responses : fetchSettles(i, response)
    \/ \E i \in 1..Len(inflight) : afterFetch(i)
    \/ \E i \in 1..Len(inflight) : afterJson(i)

Spec == Init /\ [][Next]_vars

(* ------------------------ vocabulary of the claims --------------------- *)

\* a text that is empty or holds only whitespace
IsBlank(s) == \A i \in 1..Len(s) : s[i] \in WhiteSpace

\* one more call of toast(), with the notification t
Notified(t) == toasts' = [count |-> toasts.count + 1, last |-> t]

\* invocation i has a response whose body carries choices[0].message.content
HasContent(i) ==
    /\ inflight[i].response.kind = "http"
    /\ inflight[i].response.body.json
    /\ inflight[i].response.body.choices # <<>>

ContentOf(i) == inflight[i].response.body.choices[1]

\* a text that is JSON of the shape {summary: [...], actionItems: [...]}
ExpectedShape(text) ==
    JSON_parse(text).ok /\ IsSummaryResult(JSON_parse(text).val)

\* the trigger is on screen and takes a click
TriggerAvailable == Mounted /\ ~view.disabled

Idle == inflight = <<>>

(* -------------------------------- C1 ---------------------------------- *)

\* C1: a click with an empty or whitespace-only transcript, whatever the API
\* key is, sends no request, produces the "Transcript Required" notification
\* and leaves isProcessing and result as they were.
C1_BlankTranscriptRejected ==
    [][(onClick /\ IsBlank(transcript)) =>
          /\ fetchCount' = fetchCount
          /\ inflight' = inflight
          /\ Notified(TranscriptRequired)
          /\ isProcessing' = isProcessing
          /\ result' = result]_vars

\* a whitespace-only (not empty) transcript was refused
C1_Witness ==
    /\ transcript # <<>>
    /\ IsBlank(transcript)
    /\ toasts.last = TranscriptRequired
    /\ fetchCount = 0

(* -------------------------------- C2 ---------------------------------- *)

\* C2: a click with a transcript that is not blank and an API key that is
\* empty or whitespace-only sends no request, produces the "API Key Required"
\* notification and leaves isProcessing and result as they were.
C2_BlankApiKeyRejected ==
    [][(onClick /\ ~IsBlank(transcript) /\ IsBlank(apiKey)) =>
          /\ fetchCount' = fetchCount
          /\ inflight' = inflight
          /\ Notified(ApiKeyRequired)
          /\ isProcessing' = isProcessing
          /\ result' = result]_vars

\* a whitespace-only (not empty) API key was refused
C2_Witness ==
    /\ ~IsBlank(transcript)
    /\ apiKey # <<>>
    /\ IsBlank(apiKey)
    /\ toasts.last = ApiKeyRequired
    /\ fetchCount = 0

(* -------------------------------- C3 ---------------------------------- *)

\* C3: isProcessing is true exactly while a dispatched request has not yet
\* settled (its invocation is suspended at an await), and false otherwise.
C3_ProcessingIffOutstanding == isProcessing <=> (inflight # <<>>)

\* the flag is up again for a second request, after the first one settled
C3_Witness ==
    /\ isProcessing
    /\ fetchCount = 2
    /\ Len(inflight) = 1
    /\ toasts.count >= 1

(* -------------------------------- C4 ---------------------------------- *)

\* C4: at most one request is outstanding at any time, and no step taken
\* while isProcessing is true sends a request.
C4_SingleOutstanding ==
    /\ [](Len(inflight) <= 1)
    /\ [][isProcessing => (fetchCount' = fetchCount /\ Len(inflight') <= Len(inflight))]_vars

\* a request is outstanding, the inputs are valid and clicks remain: only the
\* disabled button stands between the user and a second dispatch
C4_Witness ==
    /\ Len(inflight) = 1
    /\ isProcessing
    /\ view.disabled
    /\ ~IsBlank(transcript)
    /\ ~IsBlank(apiKey)
    /\ toasts.count + Len(inflight) < MaxClicks

(* -------------------------------- C5 ---------------------------------- *)

\* C5: when the endpoint returns success and choices[0].message.content is
\* not JSON of the shape {summary: [...], actionItems: [...]} (not JSON at
\* all, or JSON of another shape), result is not updated and the "Processing
\* Failed" notification is produced.
C5_BadContentRejected ==
    [][\A i \in 1..Len(inflight) :
          (afterJson(i) /\ HasContent(i) /\ ~ExpectedShape(ContentOf(i))) =>
              (result' = result /\ Notified(ProcessingFailed))]_vars

(* -------------------------------- C6 ---------------------------------- *)

\* C6: in every reachable state result is null or a SummaryResult with both
\* summary and actionItems present as sequences of strings.
C6_ResultNullOrWhole == result = JNull \/ IsSummaryResult(result)

(* -------------------------------- C7 ---------------------------------- *)

\* C7: a dispatch does not touch result, no step taken while the request is
\* awaited touches it, and the continuation of a response with a non-success
\* status ends the invocation with result unchanged and the "Processing
\* Failed" notification.
C7_NonSuccessKeepsResult ==
    [][/\ (Len(inflight') > Len(inflight)) => result' = result
       /\ (inflight # <<>> /\ \A i \in 1..Len(inflight) : inflight[i].stage # "json")
             => result' = result
       /\ \A i \in 1..Len(inflight) :
             (/\ inflight[i].stage = "fetched"
              /\ inflight[i].response.kind = "http"
              /\ ~inflight[i].response.ok
              /\ inflight' # inflight)
             => (/\ Len(inflight') < Len(inflight)
                 /\ result' = result
                 /\ Notified(ProcessingFailed))]_vars

\* a failed attempt has settled and the earlier result is still on screen
C7_Witness ==
    /\ Idle
    /\ toasts.last = ProcessingFailed
    /\ IsSummaryResult(result)
    /\ view.mode = "shown"
    /\ fetchCount = 2

(* -------------------------------- C8 ---------------------------------- *)

\* C8: every failure (validation, transport, format) leaves the UI idle and
\* re-triable: once the failed attempt has settled isProcessing is false and
\* the trigger takes a click again; and no request is sent but by a click,
\* one per invocation.
C8_FailureLeavesRetriable ==
    [][/\ (onClick /\ (IsBlank(transcript) \/ IsBlank(apiKey)))
             => (~isProcessing' /\ TriggerAvailable')
       /\ \A i \in 1..Len(inflight) :
             (/\ afterFetch(i) \/ afterJson(i)
              /\ Len(inflight') < Len(inflight)
              /\ ~(HasContent(i) /\ inflight[i].response.ok
                     /\ ExpectedShape(ContentOf(i))))
             => (~isProcessing' /\ TriggerAvailable')
       /\ (fetchCount' # fetchCount) => (onClick /\ fetchCount' = fetchCount + 1)]_vars

(* -------------------------------- C9 ---------------------------------- *)

C10_RenderMatchesResult ==
    IsSummaryResult(result) =>
        LET summary == Prop(result, "summary").v
            items   == Prop(result, "actionItems").v
        IN
        /\ view.mode = "shown"
        /\ Len(view.bullets) = Len(summary)
        /\ \A i \in 1..Len(summary) : view.bullets[i].child = summary[i]
        /\ view.badge = <<Len(items)>>
        /\ items # <<>> =>
              /\ ~view.notice
              /\ Len(view.rows) = Len(items)
              /\ \A i \in 1..Len(items) : view.rows[i].child = items[i]
        /\ items = <<>> => (view.notice /\ view.rows = <<>>)

\* summary = ["A", "B"], actionItems = []: two bullets, badge 0, the notice
C10_Witness ==
    /\ result = JSON_parse(TwoBullets).val
    /\ Len(view.bullets) = 2
    /\ view.badge = <<0>>
    /\ view.notice
    /\ view.rows = <<>>
====
